---- MODULE Spec2Model ----
(***************************************************************************)
(* Gradient boosting over regression-tree weak learners                    *)
(* (models/gradient_boosting_tree.py): one GradientBoostingTree instance,  *)
(* its fit() loop taken one iteration at a time, and predict().            *)
(*                                                                         *)
(* Numbers.  numpy computes in binary floating point, rounding every       *)
(* result to the nearest representable value, ties to even.  The model     *)
(* keeps that arithmetic and shrinks the format: a value is an integer     *)
(* count of units of 2^-FracBits and carries at most MantBits significant  *)
(* bits (the float64 format with a 3-bit significand and a smallest        *)
(* subnormal of 1/8).  So 8 stands for 1.0, 4 for 0.5, 12 for 1.5.         *)
(* What float64 does near 1e-16 (1 + exp(-x) rounding to 2, a sum losing   *)
(* its last bit) this format does near 1/8.                                *)
(***************************************************************************)
EXTENDS Integers, Sequences, FiniteSets, TLC

\* ------------------------------------------------------------ bounds
MaxFits == 2          \* fit() calls made on the engine
MaxEstimators == 2    \* largest n_estimators an engine is constructed with

\* ------------------------------------------------------------ arithmetic
MantBits == 3
FracBits == 3
One == 2^FracBits
Half == One \div 2

Abs(n) == IF n < 0 THEN -n ELSE n

\* a vector given elementwise, as the tuple of its elements
Vector(f) == SubSeq(f, 1, Len(f))

RECURSIVE BitLen(_)
BitLen(n) == IF n = 0 THEN 0 ELSE 1 + BitLen(n \div 2)

\* spacing of the representable values around magnitude m (in units)
Ulp(m) == IF m < 2^MantBits THEN 1 ELSE 2^(BitLen(m) - MantBits)

\* n/d (n >= 0, d > 0) to the nearest integer, ties to the even one
RoundHalfEven(n, d) ==
    LET q == n \div d
        r == n % d
    IN  IF 2 * r > d \/ (2 * r = d /\ q % 2 = 1) THEN q + 1 ELSE q

\* the representable value nearest to n/d units (d > 0), ties to even
Rnd(n, d) ==
    LET a == Abs(n)
        u == Ulp(a \div d)
        m == RoundHalfEven(a, d * u) * u
    IN  IF n < 0 THEN -m ELSE m

FAdd(a, b) == Rnd(a + b, 1)
FSub(a, b) == Rnd(a - b, 1)
FMul(a, b) == Rnd(a * b, One)
FDiv(a, b) == IF b < 0 THEN Rnd(-(a * One), -b) ELSE Rnd(a * One, b)

\* exp and log of every representable value the engine can reach, each
\* rounded to the nearest representable value (exp underflows to 0).
ExpTable ==
    -128 :> 0 @@ -112 :> 0 @@ -96 :> 0 @@ -80 :> 0 @@ -64 :> 0 @@ -56 :> 0 @@
    -48 :> 0 @@ -40 :> 0 @@ -32 :> 0 @@ -28 :> 0 @@ -24 :> 0 @@ -20 :> 1 @@
    -16 :> 1 @@ -14 :> 1 @@ -12 :> 2 @@ -10 :> 2 @@ -8 :> 3 @@ -7 :> 3 @@
    -6 :> 4 @@ -5 :> 4 @@ -4 :> 5 @@ -3 :> 5 @@ -2 :> 6 @@ -1 :> 7 @@
    0 :> 8 @@ 1 :> 10 @@ 2 :> 10 @@ 3 :> 12 @@ 4 :> 14 @@ 5 :> 14 @@
    6 :> 16 @@ 7 :> 20 @@ 8 :> 20 @@ 10 :> 28 @@ 12 :> 32 @@ 14 :> 48 @@
    16 :> 56 @@ 20 :> 96 @@ 24 :> 160 @@ 28 :> 256 @@ 32 :> 448 @@
    40 :> 1280 @@ 48 :> 3072 @@ 56 :> 8192 @@ 64 :> 24576 @@ 80 :> 163840 @@
    96 :> 1310720 @@ 112 :> 10485760 @@ 128 :> 67108864

LogTable ==
    1 :> -16 @@ 2 :> -12 @@ 3 :> -8 @@ 4 :> -6 @@ 5 :> -4 @@ 6 :> -2 @@
    7 :> -1 @@ 8 :> 0 @@ 10 :> 2 @@ 12 :> 3 @@ 14 :> 4 @@ 16 :> 6 @@
    20 :> 7 @@ 24 :> 8 @@ 28 :> 10 @@ 32 :> 12 @@ 40 :> 12 @@ 48 :> 14 @@
    56 :> 16 @@ 64 :> 16

FExp(a) == ExpTable[a]
FLog(a) == LogTable[a]

\* np.mean: the running sum, then one division by the row count
RECURSIVE FSum(_, _)
FSum(v, k) == IF k = 0 THEN 0 ELSE FAdd(FSum(v, k - 1), v[k])

Mean(v) == FDiv(FSum(v, Len(v)), Len(v) * One)

Clip(x, lo, hi) == IF x < lo THEN lo ELSE IF x > hi THEN hi ELSE x

\* 1 / (1 + np.exp(-x))
Sigmoid(x) == FDiv(One, FAdd(One, FExp(-x)))

\* np.round(x, 0) of a value x >= 0
RoundToInteger(x) == RoundHalfEven(x, One) * One

\* ------------------------------------------------------------ weak learner
\* DecisionTreeRegressor is consumed through fit(features, targets) and
\* predict(features).  Features are one column with values in {0, 1}; a
\* fitted tree is its max_depth and one leaf value per feature value: the
\* mean of the targets of the training rows with that value, or of all
\* training rows when no row has it (the tree could not split).
RowsWith(X, f) == {j \in 1..Len(X) : X[j] = f}

\* the first k targets whose row has feature value f, in row order
RECURSIVE Pick(_, _, _, _)
Pick(v, X, f, k) ==
    IF k = 0 THEN <<>>
    ELSE IF X[k] = f THEN Append(Pick(v, X, f, k - 1), v[k])
    ELSE Pick(v, X, f, k - 1)

LeafValue(X, targets, f) ==
    IF RowsWith(X, f) = {} THEN Mean(targets)
    ELSE Mean(Pick(targets, X, f, Len(X)))

TreeFit(depth, X, targets) ==
    [max_depth |-> depth,
     leaf |-> <<LeafValue(X, targets, 0), LeafValue(X, targets, 1)>>]

TreePredict(tree, X) == Vector([j \in 1..Len(X) |-> tree.leaf[X[j] + 1]])

\* ------------------------------------------------------------ loss policies
ClipEps == 1

RegressorResiduals(Y, prediction) ==
    Vector([j \in 1..Len(Y) |-> FSub(Y[j], prediction[j])])

RegressorInitialPrediction(Y) == Mean(Y)

RegressorInterpret(prediction) == prediction

ClassifierResiduals(Y, prediction) ==
    Vector([j \in 1..Len(Y) |-> FSub(Y[j], Sigmoid(prediction[j]))])

ClassifierInitialPrediction(Y) ==
    LET p == Clip(Mean(Y), ClipEps, FSub(One, ClipEps))
    IN  FLog(FDiv(p, FSub(One, p)))

\* mutant: the threshold written as "probability >= 0.5" instead of np.round
ClassifierInterpretHalfUp(prediction) ==
    IF Sigmoid(prediction) >= Half THEN One ELSE 0

ClassifierInterpret(prediction) == RoundToInteger(Sigmoid(prediction))

ComputeResiduals(c, Y, prediction) ==
    IF c = "Classifier" THEN ClassifierResiduals(Y, prediction)
    ELSE RegressorResiduals(Y, prediction)

InitialPrediction(c, Y) ==
    IF c = "Classifier" THEN ClassifierInitialPrediction(Y)
    ELSE RegressorInitialPrediction(Y)

InterpretPrediction(c, prediction) ==
    IF c = "Classifier" THEN ClassifierInterpret(prediction)
    ELSE RegressorInterpret(prediction)

\* ------------------------------------------------------------ engine
VARIABLES
    cls,                \* "Regressor" or "Classifier": the concrete subclass
    estimators,         \* self.estimators
    max_depth,          \* self.max_depth
    n_estimators,       \* self.n_estimators
    learning_rate,      \* self.learning_rate
    initial_prediction, \* self.initial_prediction: <<>> while the attribute is absent, else <<value>>
    pc,                 \* "idle", or "loop" inside fit()
    fitX, fitY,         \* fit()'s arguments X and Y (of the current or last call)
    predictions,        \* fit()'s local predictions
    residuals,          \* fit()'s local residuals
    iter,               \* iterations of fit()'s loop completed in the current or last call
    base,               \* len(self.estimators) when the current or last fit() was entered
    nfits,              \* fit() calls made so far
    ret,                \* outcome of the last completed call
    seen,               \* per probe matrix: the outputs of the first two predict() calls since the last fit()
    earlier             \* per probe matrix: <<output>> of a predict() in an earlier round on the same (X, Y), else <<>>

hyper == <<cls, max_depth, n_estimators, learning_rate>>
locals == <<fitX, fitY, predictions, residuals, iter, base>>
vars == <<cls, estimators, max_depth, n_estimators, learning_rate,
          initial_prediction, pc, fitX, fitY, predictions, residuals, iter,
          base, nfits, ret, seen, earlier>>

Classes == {"Regressor", "Classifier"}
EstimatorCounts == 1..MaxEstimators
MaxDepths == {1, 2}
LearningRates == {2, 8}

\* training sets (X, Y) handed to fit(), per subclass
RegressorData ==
    { [X |-> <<0, 1>>, Y |-> <<8, 8>>],
      [X |-> <<1>>, Y |-> <<12>>],
      [X |-> <<0, 1>>, Y |-> <<0, 12>>],
      [X |-> <<0, 1, 1>>, Y |-> <<4, 12, 20>>] }

ClassifierData ==
    { [X |-> <<0, 1>>, Y |-> <<0, 8>>],
      [X |-> <<0, 1>>, Y |-> <<8, 8>>],
      [X |-> <<0, 0>>, Y |-> <<0, 0>>],
      [X |-> <<0, 0, 1>>, Y |-> <<0, 0, 8>>] }

TrainingData(c) == IF c = "Classifier" THEN ClassifierData ELSE RegressorData

\* feature matrices handed to predict(); <<>> has zero rows
ProbeX == {<<>>, <<0, 1>>}

NoCall == [op |-> "none", status |-> "ok", X |-> <<>>, out |-> <<>>]
Blank == [x \in ProbeX |-> <<>>]

\* __init__
Init ==
    /\ cls \in Classes
    /\ n_estimators \in EstimatorCounts
    /\ max_depth \in MaxDepths
    /\ learning_rate \in LearningRates
    /\ estimators = <<>>
    /\ initial_prediction = <<>>
    /\ pc = "idle"
    /\ fitX = <<>> /\ fitY = <<>> /\ predictions = <<>> /\ residuals = <<>>
    /\ iter = 0 /\ base = 0 /\ nfits = 0
    /\ ret = NoCall
    /\ seen = Blank /\ earlier = Blank

\* predictions += self.learning_rate * estimator.predict(X)
AddScaled(prediction, lr, output) ==
    Vector([j \in 1..Len(prediction) |-> FAdd(prediction[j], FMul(lr, output[j]))])

\* fit(), up to the loop
FitBegin(X, Y) ==
    /\ pc = "idle"
    /\ nfits < MaxFits
    /\ initial_prediction' = <<InitialPrediction(cls, Y)>>
    /\ predictions' = [j \in 1..Len(Y) |-> InitialPrediction(cls, Y)]
    /\ fitX' = X /\ fitY' = Y
    /\ residuals' = <<>>
    /\ iter' = 0
    /\ base' = Len(estimators)
    /\ nfits' = nfits + 1
    /\ pc' = "loop"
    /\ seen' = Blank
    /\ earlier' = IF nfits > 0 /\ X = fitX /\ Y = fitY /\ iter = n_estimators
                  THEN [x \in ProbeX |-> IF earlier[x] # <<>> \/ seen[x] = <<>>
                                         THEN earlier[x]
                                         ELSE <<seen[x][1]>>]
                  ELSE Blank
    /\ UNCHANGED <<hyper, estimators, ret>>

\* mutant: the tree is fitted on the targets Y instead of the residuals
IterationStepOnTargets(c, depth, lr, X, Y, prediction) ==
    LET r == ComputeResiduals(c, Y, prediction)
        estimator == TreeFit(depth, X, Y)
    IN  [residuals |-> r,
         estimator |-> estimator,
         predictions |-> AddScaled(prediction, lr, TreePredict(estimator, X))]

\* one pass of the loop body: what it leaves in residuals, estimator, predictions
IterationStep(c, depth, lr, X, Y, prediction) ==
    LET r == ComputeResiduals(c, Y, prediction)
        estimator == TreeFit(depth, X, r)
    IN  [residuals |-> r,
         estimator |-> estimator,
         predictions |-> AddScaled(prediction, lr, TreePredict(estimator, X))]

\* self.estimators.append(estimator)
AppendEstimator(ensemble, estimator) == Append(ensemble, estimator)

FitIteration ==
    /\ pc = "loop"
    /\ iter < n_estimators
    /\ LET s == IterationStep(cls, max_depth, learning_rate, fitX, fitY, predictions)
       IN  /\ residuals' = s.residuals
           /\ predictions' = s.predictions
           /\ estimators' = AppendEstimator(estimators, s.estimator)
    /\ iter' = iter + 1
    /\ UNCHANGED <<hyper, initial_prediction, pc, fitX, fitY, base, nfits, ret, seen, earlier>>

\* range(self.n_estimators) is exhausted: fit() returns None
FitReturn ==
    /\ pc = "loop"
    /\ iter = n_estimators
    /\ pc' = "idle"
    /\ ret' = [op |-> "fit", status |-> "ok", X |-> fitX, out |-> <<>>]
    /\ UNCHANGED <<hyper, estimators, initial_prediction, locals, nfits, seen, earlier>>

\* the weak learner's fit or predict raises inside an iteration: the
\* exception leaves fit() with nothing of that iteration stored
FitRaise ==
    /\ pc = "loop"
    /\ iter < n_estimators
    /\ pc' = "idle"
    /\ ret' = [op |-> "fit", status |-> "error", X |-> fitX, out |-> <<>>]
    /\ UNCHANGED <<hyper, estimators, initial_prediction, locals, nfits, seen, earlier>>

\* the loop of predict(): initial value plus every estimator's scaled output, in list order
RECURSIVE AccumulateTo(_, _, _, _, _)
AccumulateTo(start, lr, ensemble, X, k) ==
    IF k = 0 THEN Vector([j \in 1..Len(X) |-> start])
    ELSE AddScaled(AccumulateTo(start, lr, ensemble, X, k - 1),
                   lr, TreePredict(ensemble[k], X))

Accumulate(start, lr, ensemble, X) ==
    AccumulateTo(start, lr, ensemble, X, Len(ensemble))

\* mutant: the attribute defaults to 0 when fit() has not assigned it
PredictResultDefaultZero(c, init, lr, ensemble, X) ==
    LET raw == Accumulate(IF init = <<>> THEN 0 ELSE init[1], lr, ensemble, X)
    IN  [status |-> "ok",
         out |-> [j \in 1..Len(X) |-> InterpretPrediction(c, raw[j])]]

\* predict(): reading self.initial_prediction raises AttributeError while
\* fit() has never assigned it
PredictResult(c, init, lr, ensemble, X) ==
    IF init = <<>>
    THEN [status |-> "error", out |-> <<>>]
    ELSE LET raw == Accumulate(init[1], lr, ensemble, X)
         IN  [status |-> "ok",
              out |-> [j \in 1..Len(X) |-> InterpretPrediction(c, raw[j])]]

\* mutant: predict() takes the estimators off the list as it applies them
PredictConsuming(X) ==
    /\ pc = "idle"
    /\ LET r == [status |-> IF initial_prediction = <<>> THEN "error" ELSE "ok",
                 out |-> IF initial_prediction = <<>> THEN <<>>
                         ELSE [j \in 1..Len(X) |->
                                 InterpretPrediction(cls,
                                     Accumulate(initial_prediction[1], learning_rate,
                                                estimators, X)[j])]]
       IN  /\ ret' = [op |-> "predict", status |-> r.status, X |-> X, out |-> r.out]
           /\ seen' = IF r.status = "ok" /\ Len(seen[X]) < 2
                      THEN [seen EXCEPT ![X] = Append(@, r.out)]
                      ELSE seen
           /\ estimators' = IF r.status = "ok" THEN <<>> ELSE estimators
    /\ UNCHANGED <<hyper, initial_prediction, pc, locals, nfits, earlier>>

Predict(X) ==
    /\ pc = "idle"
    /\ LET r == PredictResult(cls, initial_prediction, learning_rate, estimators, X)
       IN  /\ ret' = [op |-> "predict", status |-> r.status, X |-> X, out |-> r.out]
           /\ seen' = IF r.status = "ok" /\ Len(seen[X]) < 2
                      THEN [seen EXCEPT ![X] = Append(@, r.out)]
                      ELSE seen
    /\ UNCHANGED <<hyper, estimators, initial_prediction, pc, locals, nfits, earlier>>

Next ==
    \/ \E d \in TrainingData(cls) : FitBegin(d.X, d.Y)
    \/ FitIteration
    \/ FitReturn
    \/ \E X \in ProbeX : Predict(X)

Spec == Init /\ [][Next]_vars

\* the same engine with weak learners that may raise
NextRaise == Next \/ FitRaise

SpecRaise == Init /\ [][NextRaise]_vars

\* ------------------------------------------------------------ reference run
\* A new engine (empty ensemble, no initial_prediction) on which fit(X, Y)
\* is called once and runs to completion.
RECURSIVE FitLoop(_, _, _, _, _, _, _)
FitLoop(k, c, depth, lr, X, Y, st) ==
    IF k = 0 THEN st
    ELSE LET s == IterationStep(c, depth, lr, X, Y, st.predictions)
         IN  FitLoop(k - 1, c, depth, lr, X, Y,
                     [st EXCEPT !.predictions = s.predictions,
                                !.estimators = AppendEstimator(@, s.estimator)])

FreshFit(c, k, depth, lr, X, Y) ==
    FitLoop(k, c, depth, lr, X, Y,
            [initial_prediction |-> <<InitialPrediction(c, Y)>>,
             predictions |-> [j \in 1..Len(Y) |-> InitialPrediction(c, Y)],
             estimators |-> <<>>])

Fresh == FreshFit(cls, n_estimators, max_depth, learning_rate, fitX, fitY)

\* ------------------------------------------------------------ claims
Fitted == pc = "idle" /\ nfits >= 1
AfterPredict == pc = "idle" /\ ret.op = "predict" /\ ret.status = "ok"
ThisCall == SubSeq(estimators, base + 1, Len(estimators))
RawOutput(X) == Accumulate(initial_prediction[1], learning_rate, estimators, X)
Constant(v) == \A j \in 1..Len(v) : v[j] = v[1]

\* C1: after every successful fit(), a second or later one included, the
\* ensemble holds exactly n_estimators weak learners.
C1_EnsembleSize == Fitted => Len(estimators) = n_estimators

\* C2: fit() on an already fitted engine leaves the ensemble, the initial
\* prediction and every predict() output equal to those of a new engine
\* with the same hyperparameters fitted once on the same (X, Y).
C2_RefitIsFreshFit ==
    (Fitted /\ nfits >= 2) =>
        /\ estimators = Fresh.estimators
        /\ initial_prediction = Fresh.initial_prediction
        /\ \A x \in ProbeX :
              PredictResult(cls, initial_prediction, learning_rate, estimators, x)
              = PredictResult(cls, Fresh.initial_prediction, learning_rate,
                              Fresh.estimators, x)

\* C3: predict() on a fitted engine changes neither the ensemble, nor the
\* initial prediction, nor a hyperparameter; it returns one output per input
\* row, and the same vector as an earlier predict() on the same features
\* made since the last fit().
C3_PredictPure ==
    [][\A x \in ProbeX :
          (Predict(x) /\ initial_prediction # <<>>) =>
              /\ estimators' = estimators
              /\ initial_prediction' = initial_prediction
              /\ hyper' = hyper
              /\ ret'.status = "ok"
              /\ Len(ret'.out) = Len(x)
              /\ seen[x] # <<>> => ret'.out = seen[x][1]]_vars

\* a fitted engine with two learners on which predict() was called twice on
\* the same non-empty features, and once on zero rows
C3_Witness ==
    /\ AfterPredict
    /\ ret.X # <<>>
    /\ Len(estimators) >= 2
    /\ Len(seen[ret.X]) = 2
    /\ seen[<<>>] # <<>>

\* C4: predict() on an engine on which fit() was never called ends in an
\* error and returns no vector, whatever the features (zero rows included),
\* and the engine stays unfitted with an empty ensemble.
C4_UnfitPredictFails ==
    (ret.op = "predict" /\ nfits = 0) =>
        /\ ret.status = "error"
        /\ ret.out = <<>>
        /\ estimators = <<>>
        /\ initial_prediction = <<>>

\* predict() on zero rows was called on the unfitted engine and raised
C4_Witness == ret.op = "predict" /\ nfits = 0 /\ ret.X = <<>> /\ ret.status = "error"

\* C5: two rounds of fit(X, Y) then predict(X') on identical data return
\* identical outputs, both when the rounds run one after the other on the
\* same engine and when they run on separate engines (the second engine
\* being a new one fitted once on the same data).
C5_Determinism ==
    \A x \in ProbeX :
        seen[x] # <<>> =>
            /\ earlier[x] # <<>> => seen[x][1] = earlier[x][1]
            /\ seen[x][1] = PredictResult(cls, Fresh.initial_prediction, learning_rate,
                                          Fresh.estimators, x).out

\* C6: regression on constant targets c: fit() sets the initial prediction
\* to c, the residuals are all zero at every iteration, and predict()
\* returns c for every row of any input.
C6_ConstantTargets ==
    (cls = "Regressor" /\ nfits >= 1 /\ Constant(fitY)) =>
        /\ initial_prediction = <<fitY[1]>>
        /\ \A j \in 1..Len(residuals) : residuals[j] = 0
        /\ Fitted =>
              \A x \in ProbeX : \A j \in 1..Len(x) :
                  PredictResult(cls, initial_prediction, learning_rate, estimators, x).out[j]
                  = fitY[1]

\* C7: every element the classifier's predict() returns is 0 or 1; a logit
\* below 0 gives 0 and a logit above 0 gives 1; the accumulated values are
\* logits, interpreted once each at the end.
C7_LogitSign ==
    (AfterPredict /\ cls = "Classifier") =>
        \A j \in 1..Len(ret.X) :
            /\ ret.out[j] \in {0, One}
            /\ RawOutput(ret.X)[j] < 0 => ret.out[j] = 0
            /\ RawOutput(ret.X)[j] > 0 => ret.out[j] = One

\* C7 as amended: every element is 0 or 1; a logit at or below 0 gives 0;
\* a logit whose computed sigmoid is above 0.5 gives 1 and one whose
\* computed sigmoid is at most 0.5 (which includes positive logits so small
\* that the sigmoid rounds to exactly 0.5) gives 0; the accumulated values
\* are logits, the sigmoid being applied to each final sum only.
C7_SigmoidThreshold ==
    (AfterPredict /\ cls = "Classifier") =>
        \A j \in 1..Len(ret.X) :
            LET logit == RawOutput(ret.X)[j]
            IN  /\ ret.out[j] \in {0, One}
                /\ logit <= 0 => ret.out[j] = 0
                /\ Sigmoid(logit) > Half => ret.out[j] = One
                /\ Sigmoid(logit) <= Half => ret.out[j] = 0

\* after a first fit, predict() met a positive logit whose sigmoid is exactly
\* 0.5 (output 0) next to a negative logit (output 0)
C7_Witness ==
    /\ AfterPredict /\ cls = "Classifier" /\ nfits = 1
    /\ \E j \in 1..Len(ret.X) : RawOutput(ret.X)[j] > 0 /\ ret.out[j] = 0
    /\ \E j \in 1..Len(ret.X) : RawOutput(ret.X)[j] < 0 /\ ret.out[j] = 0

\* the working predictions after k iterations of the current call
WorkingPredictions(k) ==
    Accumulate(initial_prediction[1], learning_rate,
               SubSeq(estimators, base + 1, base + k), fitX)

\* C8 (loop state): inside one fit() call, iteration k fits a new tree of the configured
\* max_depth on (X, residuals), the residuals being computed from the
\* initial prediction plus the scaled outputs of the trees of iterations
\* 1..k-1 of this call, added in order; the working predictions then take
\* that tree's scaled output; the tree is appended last, so the ensemble
\* grows by one per iteration and keeps the fitting order.
C8_LoopState ==
    nfits >= 1 =>
        /\ Len(estimators) = base + iter
        /\ predictions = WorkingPredictions(iter)
        /\ iter >= 1 => residuals = ComputeResiduals(cls, fitY, WorkingPredictions(iter - 1))
        /\ \A k \in 1..iter :
              estimators[base + k]
              = TreeFit(max_depth, fitX,
                        ComputeResiduals(cls, fitY, WorkingPredictions(k - 1)))

\* C8 (whole claim): the loop state above holds at every point, an
\* iteration appends exactly one learner behind those already stored, and
\* nothing else changes the ensemble.
C8_SequentialLoop ==
    /\ []C8_LoopState
    /\ [][/\ iter' = iter + 1 =>
                /\ pc = "loop"
                /\ Len(estimators') = Len(estimators) + 1
                /\ SubSeq(estimators', 1, Len(estimators)) = estimators
          /\ estimators' # estimators => iter' = iter + 1]_vars

\* the second iteration of a second fit() call has run, on non-zero
\* residuals that differ from the targets, and produced a different tree
C8_Witness ==
    /\ pc = "loop" /\ iter = 2 /\ base >= 1
    /\ residuals # fitY
    /\ \E j \in 1..Len(residuals) : residuals[j] # 0
    /\ estimators[base + 1] # estimators[base + 2]

\* C9: after any fit() call, one in which a weak learner raised included,
\* the caller never sees an engine whose initial prediction was replaced
\* while the ensemble holds some but not all of that call's learners.
C9_FitAtomic ==
    (pc = "idle" /\ nfits >= 1) =>
        ~ (/\ initial_prediction = <<InitialPrediction(cls, fitY)>>
           /\ Len(ThisCall) > 0
           /\ Len(ThisCall) < n_estimators)

\* C10: right after a successful fit(X, Y), the value predict(X) accumulates
\* for each training row, before interpretation, is the final value of
\* fit()'s working predictions for that row; after the first fit and after
\* every later one.
C10_FitPredictConsistent ==
    (pc = "idle" /\ ret.op = "fit" /\ ret.status = "ok") =>
        RawOutput(fitX) = predictions

====
